---- MODULE Spec2Model ----
(***************************************************************************)
(* Verification model of the `chaotic` crate: the N-dimensional index      *)
(* space (dimensions.rs), the sampling engine (sample.rs) and the          *)
(* dynamical systems (systems/three_body.rs, systems/mandelbrot.rs).       *)
(*                                                                         *)
(* Sequences are 1-based here and 0-based in the source: axis i of the     *)
(* source is position i+1 of a sequence; flat indices and coordinates keep *)
(* their 0-based values.                                                   *)
(***************************************************************************)
EXTENDS Integers, Sequences, FiniteSets, TLC

\* ------------------------------------------------------------------ bounds
MaxAxes == 4
MaxExtent == 3
ExtraCalls == 2
MaxVolume == 4
MaxIterVolume == 24
MaxSteps == 2
MaxSysOps == 3
MaxDepth == 3
MaxLayersPerRun == 2
MaxEscapeSteps == 6

VARIABLES
    dims,        \* Dimensions.dimensions: the extents, one per axis
    op,          \* the conversion called last: "none", "index_to_pos", "pos_to_index"
    arg_index,   \* argument of the last index_to_pos call
    arg_pos,     \* argument of the last pos_to_index call
    res_pos,     \* value returned by the last index_to_pos call
    res_index,   \* value returned by the last pos_to_index call
    res_panic,   \* TRUE when the last call panicked instead of returning
    it,          \* DimensionsIterator: [dimensions, coordinates, started]
    it_last,     \* what the last next() returned: [some, val]; None before any call
    yielded,     \* the coordinates next() has returned so far, in order
    nones,       \* how many times next() has returned None
    calls,       \* how many times next() has been called
    it2,         \* a second DimensionsIterator obtained from the same dims
    yielded2,    \* the coordinates it2.next() has returned so far, in order
    calls2,      \* how many times it2.next() has been called
    sys,         \* one ChaoticSystem value (an NBody or a Mandelbrot)
    sys_prev,    \* the value of sys before the last call on it
    sys_op,      \* the last call on sys: "none", "mutate", "update", "lerp", "distance"
    sys_arg,     \* its argument: the perturbation (mutate), <<dt>> (update), <<t>> (lerp)
    sys_ops,     \* how many calls have been made on sys
    sys_other,   \* the `other` of the last lerp or distance call
    lerp_res,    \* the instance returned by the last lerp call
    dist_res,    \* the f64 returned by the last distance call
    sys_panic,   \* TRUE when the last call on sys panicked instead of returning
    cfg,         \* the arguments of Samples::new: [seed, dimensions, mutation_scales, all_scale]
    built,       \* TRUE once Samples::new has run
    population,  \* the Samples value: [dimensions, samples]
    mutlog,      \* per coordinate visited by Samples::new: [coord, pushed, mutation]
    before,      \* population.samples before the last Samples::update
    before2,     \* population.samples before the Samples::update before the last
    upd2,        \* the arguments of the Samples::update before the last
    upd,         \* the last Samples::update call: [iterations, dt]
    steps,       \* total of the iterations of the Samples::update calls so far
    updates,     \* number of Samples::update calls so far
    pairs,       \* the items of the last Samples::iter(), <<>> when none is alive
    init_data,   \* viewer resource InitData: [initial_sample, initial_mutation,
                 \*   dimensions, mutation_scale, all_scale, dt, updates_per_iteration]
    state,       \* viewer resource ViewerState: [initial_mutation, mutation_scale,
                 \*   all_scale, dt, updates_per_iteration, samples]
    layer_data,  \* viewer resource LayerData: [target_depth, current_depth, request_update]
    layers,      \* number of Layer entities alive
    camera_z,    \* translation.z of the MainCamera
    v_last,      \* the viewer system that ran last: "none", "gui", "reset", "process"
    v_prev,      \* state, layer_data, layers and camera_z before that run
    v_built,     \* state.samples as the last InitData::init built it
    display_sample, \* chaotic binary: Model.display_sample
    app_last     \* chaotic binary: the event handled last

vars == <<dims, op, arg_index, arg_pos, res_pos, res_index, res_panic,
          it, it_last, yielded, nones, calls, it2, yielded2, calls2,
          sys, sys_prev, sys_op, sys_arg, sys_ops,
          sys_other, lerp_res, dist_res, sys_panic,
          cfg, built, population, mutlog, before, before2, upd, upd2,
          steps, updates, pairs,
          init_data, state, layer_data, layers, camera_z, v_last, v_prev, v_built,
          display_sample, app_last>>

convVars == <<op, arg_index, arg_pos, res_pos, res_index, res_panic>>
iter2Vars == <<it2, yielded2, calls2>>
iterVars == <<it, it_last, yielded, nones, calls, iter2Vars>>
sysVars == <<sys, sys_prev, sys_op, sys_arg, sys_ops,
             sys_other, lerp_res, dist_res, sys_panic>>
samplesVars == <<cfg, built, population, mutlog, before, before2, upd, upd2,
                 steps, updates, pairs>>
viewerVars == <<init_data, state, layer_data, layers, camera_z, v_last, v_prev, v_built>>
binVars == <<display_sample, app_last>>
appVars == <<viewerVars, binVars>>

\* ------------------------------------------------------------- helpers
Min(a, b) == IF a < b THEN a ELSE b

\* All sequences over S of length 0..n
SeqsUpTo(S, n) == UNION {[1..k -> S] : k \in 0..n}

\* ---------------------------------------------------------- Dimensions
\* Dimensions::len
len(d) == Len(d)

\* Dimensions::volume: the product of the extents (1 for no extents)
RECURSIVE product(_)
product(d) == IF d = <<>> THEN 1 ELSE Head(d) * product(Tail(d))

volume(d) == product(d)

\* Dimensions::index_to_pos: the loop over the extents
RECURSIVE index_to_pos_loop(_, _, _, _)
index_to_pos_loop(d, i, remaining, pos) ==
    IF i > Len(d) THEN pos
    ELSE index_to_pos_loop(d, i + 1, remaining \div d[i],
                           Append(pos, remaining % d[i]))

\* index_to_pos with the last axis taken as the fastest one
RECURSIVE index_to_pos_last_fastest(_, _)
index_to_pos_last_fastest(d, index) ==
    IF d = <<>> THEN <<>>
    ELSE Append(index_to_pos_last_fastest(SubSeq(d, 1, Len(d) - 1), index \div d[Len(d)]),
                index % d[Len(d)])

\* index_to_pos that forgets `remaining /= dim_size`
index_to_pos_no_division(d, index) == [i \in 1..Len(d) |-> index % d[i]]

index_to_pos(d, index) == index_to_pos_loop(d, 1, index, <<>>)

\* Dimensions::pos_to_index panics when `self.dimensions[i]` is indexed
\* past the last axis, i.e. when pos is longer than the extents.
pos_to_index_panics(d, pos) == Len(pos) > Len(d)

\* Dimensions::pos_to_index: the loop over the coordinates of pos
RECURSIVE pos_to_index_loop(_, _, _, _, _)
pos_to_index_loop(d, pos, i, index, multiplier) ==
    IF i > Len(pos) \/ i > Len(d) THEN index
    ELSE pos_to_index_loop(d, pos, i + 1, index + pos[i] * multiplier,
                           multiplier * d[i])

\* pos_to_index that multiplies by the extent of the axis before adding
RECURSIVE pos_to_index_premultiplied_loop(_, _, _, _, _)
pos_to_index_premultiplied_loop(d, pos, i, index, multiplier) ==
    IF i > Len(pos) \/ i > Len(d) THEN index
    ELSE pos_to_index_premultiplied_loop(d, pos, i + 1,
                                         index + pos[i] * multiplier * d[i],
                                         multiplier * d[i])

pos_to_index_premultiplied(d, pos) == pos_to_index_premultiplied_loop(d, pos, 1, 0, 1)

pos_to_index(d, pos) == pos_to_index_loop(d, pos, 1, 0, 1)

\* Dimensions::iter: a fresh iterator over a clone of the dimensions
Dimensions_iter(d) ==
    [dimensions |-> d, coordinates |-> [i \in 1..Len(d) |-> 0], started |-> FALSE]

None == [some |-> FALSE, val |-> <<>>]
Some(v) == [some |-> TRUE, val |-> v]

\* DimensionsIterator::next, the increment loop from axis i on: the result
\* is the iterator after the call and the value returned.
RECURSIVE next_loop(_, _)
next_loop(self, i) ==
    IF i > Len(self.dimensions) THEN [it |-> self, out |-> None]
    ELSE IF self.coordinates[i] < self.dimensions[i] - 1
         THEN LET c == [self.coordinates EXCEPT ![i] = @ + 1]
              IN [it |-> [self EXCEPT !.coordinates = c], out |-> Some(c)]
         ELSE next_loop([self EXCEPT !.coordinates[i] = 0], i + 1)

\* next() that advances before returning the first coordinate
DimensionsIterator_next_skip_first(self) ==
    IF self.coordinates = <<>> THEN [it |-> self, out |-> None]
    ELSE next_loop([self EXCEPT !.started = TRUE], 1)

\* DimensionsIterator::next
DimensionsIterator_next(self) ==
    IF self.coordinates = <<>> THEN [it |-> self, out |-> None]
    ELSE IF ~self.started
         THEN [it |-> [self EXCEPT !.started = TRUE], out |-> Some(self.coordinates)]
         ELSE next_loop(self, 1)

\* ------------------------------------------------------------- f64
\* An f64 is modelled as a fixed-point number: the integer n stands for the
\* real n / ONE.  Sums, differences and products by an integer are exact;
\* products, quotients and square roots are rounded to the nearest multiple
\* of 1 / ONE (the square root downwards).
ONE == 1000

Abs(a) == IF a < 0 THEN -a ELSE a
Sign(a) == IF a < 0 THEN -1 ELSE 1

\* a / b for integers, rounded to the nearest integer (b # 0)
RDiv(a, b) == Sign(a) * Sign(b) * ((Abs(a) + Abs(b) \div 2) \div Abs(b))

\* f64 product and quotient
FMul(a, b) == RDiv(a * b, ONE)
FDiv(a, b) == RDiv(a * ONE, b)

\* The range of an f64.  Beyond the largest finite value a result is an
\* infinity, and an undefined result (inf - inf, 0 * inf) is NaN.  The
\* largest finite value of the model is 46, scaled down from 1.8e308 so
\* that the square of a finite value is still a number TLC can hold; the
\* infinities and NaN are the three numbers just outside the finite range.
F64_MAX == 46 * ONE
INFINITY == F64_MAX + 1
NEG_INFINITY == -INFINITY
NAN == F64_MAX + 2

is_nan(a) == a = NAN
is_finite(a) == Abs(a) <= F64_MAX

\* the f64 nearest to the in-range or out-of-range real r
f64_round(r) ==
    IF r > F64_MAX THEN INFINITY ELSE IF r < -F64_MAX THEN NEG_INFINITY ELSE r

\* a * b, a + b, -a, a - b and a > b on the whole range of f64
f64_mul(a, b) ==
    IF is_nan(a) \/ is_nan(b) THEN NAN
    ELSE IF is_finite(a) /\ is_finite(b) THEN f64_round(FMul(a, b))
    ELSE IF a = 0 \/ b = 0 THEN NAN
    ELSE Sign(a) * Sign(b) * INFINITY

f64_add(a, b) ==
    IF is_nan(a) \/ is_nan(b) THEN NAN
    ELSE IF is_finite(a) /\ is_finite(b) THEN f64_round(a + b)
    ELSE IF is_finite(b) THEN a
    ELSE IF is_finite(a) THEN b
    ELSE IF a = b THEN a
    ELSE NAN

f64_neg(a) == IF is_nan(a) THEN NAN ELSE -a

f64_sub(a, b) == f64_add(a, f64_neg(b))

f64_gt(a, b) == ~is_nan(a) /\ ~is_nan(b) /\ a > b

\* largest r with r * r <= n
RECURSIVE SqrtSearch(_, _, _)
SqrtSearch(n, lo, hi) ==
    IF lo >= hi THEN lo
    ELSE LET mid == (lo + hi + 1) \div 2
         IN IF mid * mid <= n THEN SqrtSearch(n, mid, hi) ELSE SqrtSearch(n, lo, mid - 1)

ISqrt(n) == SqrtSearch(n, 0, 46340)

\* ------------------------------------------------------------- DVec2
DVec2(x, y) == [x |-> x, y |-> y]
DVec2_ZERO == DVec2(0, 0)
VAdd(a, b) == DVec2(a.x + b.x, a.y + b.y)
VSub(a, b) == DVec2(a.x - b.x, a.y - b.y)
\* vector times f64
VScale(a, k) == DVec2(FMul(a.x, k), FMul(a.y, k))
\* vector divided by f64
VDivide(a, k) == DVec2(FDiv(a.x, k), FDiv(a.y, k))

\* DVec2::length_squared, kept exact: the result is in units of 1 / ONE^2
length_squared(a) == a.x * a.x + a.y * a.y

\* DVec2::length_squared on the whole range of f64, rounded as an f64 is:
\* the result is in units of 1 / ONE
f64_length_squared(a) == f64_add(f64_mul(a.x, a.x), f64_mul(a.y, a.y))

\* DVec2::normalize of a vector whose squared length is lsq (lsq > 0)
normalize(a, lsq) == LET l == ISqrt(lsq) IN DVec2(FDiv(a.x, l), FDiv(a.y, l))

\* EPSILON = 1e-5 in the units of length_squared
EPSILON == (ONE * ONE) \div 100000

\* ------------------------------------------------------------- NBody
Body(mass, position, velocity) ==
    [position |-> position, velocity |-> velocity, mass |-> mass]

NBody(g, bodies, color_schema) ==
    [kind |-> "NBody", g |-> g, bodies |-> bodies, color_schema |-> color_schema]

\* NBody::mutate, the loop from slot i (0-based) of pos on
RECURSIVE NBody_mutate_loop(_, _, _)
NBody_mutate_loop(self, pos, i) ==
    IF i >= Len(pos) THEN self
    ELSE LET b == (i \div 4) + 1
             m == pos[i + 1]
         IN IF b > Len(self.bodies) THEN self
            ELSE NBody_mutate_loop(
                    CASE i % 4 = 0 -> [self EXCEPT !.bodies[b].velocity.x = @ + m]
                      [] i % 4 = 1 -> [self EXCEPT !.bodies[b].velocity.y = @ + m]
                      [] i % 4 = 2 -> [self EXCEPT !.bodies[b].position.x = @ + m]
                      [] i % 4 = 3 -> [self EXCEPT !.bodies[b].position.y = @ + m],
                    pos, i + 1)

\* mutate whose loop starts at slot 1 of pos
NBody_mutate_skips_first_slot(self, pos) == NBody_mutate_loop(self, pos, 1)

NBody_mutate(self, pos) == NBody_mutate_loop(self, pos, 0)

\* NBody::update, the inner loop: the force on body i from the bodies j..n
\* of `bodies`
RECURSIVE force_loop(_, _, _, _, _)
force_loop(g, bodies, i, j, force) ==
    IF j > Len(bodies) THEN force
    ELSE IF i = j THEN force_loop(g, bodies, i, j + 1, force)
    ELSE LET direction == VSub(bodies[j].position, bodies[i].position)
             distance_sq == length_squared(direction)
         IN IF distance_sq < EPSILON
            THEN force_loop(g, bodies, i, j + 1, force)
            ELSE LET force_magnitude ==
                         RDiv(g * bodies[j].mass * bodies[i].mass, distance_sq)
                 IN force_loop(g, bodies, i, j + 1,
                               VAdd(force, VScale(normalize(direction, distance_sq),
                                                  force_magnitude)))

\* the acceleration of body i computed from the bodies as they are in `bodies`
acceleration(g, bodies, i) ==
    VDivide(force_loop(g, bodies, i, 1, DVec2_ZERO), bodies[i].mass)

\* the body i after its velocity and position update
moved(body, acc, dt) ==
    LET velocity == VAdd(body.velocity, VScale(acc, dt))
    IN [body EXCEPT !.velocity = velocity,
                    !.position = VAdd(body.position, VScale(velocity, dt))]

\* NBody::update, the outer loop from body i on: body i is written back
\* before the force on body i + 1 is computed
RECURSIVE NBody_update_loop(_, _, _, _)
NBody_update_loop(g, bodies, i, dt) ==
    IF i > Len(bodies) THEN bodies
    ELSE NBody_update_loop(
            g,
            [bodies EXCEPT ![i] = moved(bodies[i], acceleration(g, bodies, i), dt)],
            i + 1, dt)

NBody_update(self, dt) ==
    [self EXCEPT !.bodies = NBody_update_loop(self.g, self.bodies, 1, dt)]

\* utils::lerp_f64: a + (b - a) * t
lerp_f64(a, b, t) == a + FMul(b - a, t)

\* DVec2::lerp, component by component
DVec2_lerp(a, b, t) == DVec2(lerp_f64(a.x, b.x, t), lerp_f64(a.y, b.y, t))

\* NBody::lerp fails its assert_eq! when the body counts differ
\* the assertion of lerp firing only when self has more bodies than other
NBody_lerp_panics_if_longer(self, other) == Len(self.bodies) > Len(other.bodies)

NBody_lerp_panics(self, other) == Len(self.bodies) # Len(other.bodies)

\* NBody::lerp (equal body counts): the bodies are interpolated pairwise,
\* g is interpolated, the colour schema is the one of self
NBody_lerp(self, other, t) ==
    [kind |-> "NBody",
     color_schema |-> self.color_schema,
     bodies |-> [i \in 1..Len(self.bodies) |->
                    Body(lerp_f64(self.bodies[i].mass, other.bodies[i].mass, t),
                         DVec2_lerp(self.bodies[i].position, other.bodies[i].position, t),
                         DVec2_lerp(self.bodies[i].velocity, other.bodies[i].velocity, t))],
     g |-> lerp_f64(self.g, other.g, t)]

\* DVec2::distance: the length of the difference
DVec2_distance(a, b) == ISqrt(length_squared(VSub(a, b)))

\* NBody::distance, the loop over the zipped bodies from pair i on
RECURSIVE total_distance(_, _, _)
total_distance(self, other, i) ==
    IF i > Len(self.bodies) \/ i > Len(other.bodies) THEN 0
    ELSE DVec2_distance(self.bodies[i].velocity, other.bodies[i].velocity)
            + total_distance(self, other, i + 1)

\* NBody::distance: the total is divided by 3.0
NBody_distance(self, other) == FDiv(total_distance(self, other, 1), 3 * ONE)

\* --------------------------------------------------------- Mandelbrot
Mandelbrot_new(color_schema) ==
    [kind |-> "Mandelbrot", color_schema |-> color_schema,
     z |-> DVec2_ZERO, c |-> DVec2_ZERO]

\* pos.get(i).copied().unwrap_or_default(), i 0-based
get_or_default(pos, i) == IF i < Len(pos) THEN pos[i + 1] ELSE 0

Mandelbrot_mutate(self, pos) ==
    [self EXCEPT !.c = VAdd(@, DVec2(get_or_default(pos, 0), get_or_default(pos, 1)))]

\* update whose imaginary part is 2.0 + z.x * z.y
Mandelbrot_update_plus_for_times(self, dt) ==
    [self EXCEPT !.z =
        DVec2(f64_add(f64_sub(f64_mul(self.z.x, self.z.x), f64_mul(self.z.y, self.z.y)),
                      self.c.x),
              f64_add(f64_add(2 * ONE, f64_mul(self.z.x, self.z.y)), self.c.y))]

\* update that also stores the new z in c
Mandelbrot_update_writes_c(self, dt) ==
    LET z == DVec2(f64_add(f64_sub(f64_mul(self.z.x, self.z.x),
                                   f64_mul(self.z.y, self.z.y)), self.c.x),
                   f64_add(f64_mul(f64_mul(2 * ONE, self.z.x), self.z.y), self.c.y))
    IN [self EXCEPT !.z = z, !.c = z]

\* Mandelbrot::update: z = z^2 + c, whatever dt is; a component that leaves
\* the range of f64 becomes an infinity, and then NaN
Mandelbrot_update(self, dt) ==
    [self EXCEPT !.z =
        DVec2(f64_add(f64_sub(f64_mul(self.z.x, self.z.x), f64_mul(self.z.y, self.z.y)),
                      self.c.x),
              f64_add(f64_mul(f64_mul(2 * ONE, self.z.x), self.z.y), self.c.y))]

\* Mandelbrot::lerp: z and c are interpolated, the colour schema is the one
\* of self
Mandelbrot_lerp(self, other, t) ==
    [kind |-> "Mandelbrot",
     color_schema |-> self.color_schema,
     z |-> DVec2_lerp(self.z, other.z, t),
     c |-> DVec2_lerp(self.c, other.c, t)]

\* Mandelbrot::distance: the squared length of the difference of the z
Mandelbrot_distance(self, other) == RDiv(length_squared(VSub(self.z, other.z)), ONE)

\* ------------------------------------------------------ ChaoticSystem
\* the trait methods, dispatched on the implementing type
System_mutate(self, pos) ==
    IF self.kind = "NBody" THEN NBody_mutate(self, pos) ELSE Mandelbrot_mutate(self, pos)

System_update(self, dt) ==
    IF self.kind = "NBody" THEN NBody_update(self, dt) ELSE Mandelbrot_update(self, dt)

System_lerp_panics(self, other) ==
    self.kind = "NBody" /\ NBody_lerp_panics(self, other)

System_lerp(self, other, t) ==
    IF self.kind = "NBody" THEN NBody_lerp(self, other, t)
    ELSE Mandelbrot_lerp(self, other, t)

System_distance(self, other) ==
    IF self.kind = "NBody" THEN NBody_distance(self, other)
    ELSE Mandelbrot_distance(self, other)

\* ------------------------------------------------------------ Samples
\* the perturbation with a unit scale for the axes without a scale entry
MutationVector_pads_unit_scale(pos, dimensions, mutation_scales, all_scale) ==
    [i \in 1..Len(pos) |->
        FMul(FMul((pos[i] - dimensions[i]) * ONE,
                  IF i <= Len(mutation_scales) THEN mutation_scales[i] ELSE ONE),
             all_scale)]

\* the perturbation with the global scale left out
MutationVector_no_global_scale(pos, dimensions, mutation_scales, all_scale) ==
    [i \in 1..Min(Len(pos), Len(mutation_scales)) |->
        FMul((pos[i] - dimensions[i]) * ONE, mutation_scales[i])]

\* The perturbation handed to mutate for the coordinate pos: entry i is
\* (pos[i] - extent[i]) * mutation_scales[i] * all_scale; axes without a
\* scale entry get no entry.
MutationVector(pos, dimensions, mutation_scales, all_scale) ==
    [i \in 1..Min(Len(pos), Len(mutation_scales)) |->
        FMul(FMul((pos[i] - dimensions[i]) * ONE, mutation_scales[i]), all_scale)]

\* the loop of Samples::new that mutates a clone and leaves prev as it was
RECURSIVE Samples_new_loop_mutates_clone(_, _, _, _, _, _)
Samples_new_loop_mutates_clone(iter, prev, samples, log, mutation_scales, all_scale) ==
    LET r == DimensionsIterator_next(iter) IN
    IF ~r.out.some THEN [samples |-> samples, log |-> log, prev |-> prev]
    ELSE LET pos == r.out.val
             m == MutationVector(pos, iter.dimensions, mutation_scales, all_scale)
         IN Samples_new_loop_mutates_clone(
                r.it, prev, Append(samples, prev),
                Append(log, [coord |-> pos, pushed |-> prev, mutation |-> m]),
                mutation_scales, all_scale)

\* Samples::new, the loop `for pos in dimensions.iter()`: prev is the running
\* accumulator, samples the vector built so far; log records, per coordinate
\* visited, the clone pushed and the perturbation applied after it.
RECURSIVE Samples_new_loop(_, _, _, _, _, _)
Samples_new_loop(iter, prev, samples, log, mutation_scales, all_scale) ==
    LET r == DimensionsIterator_next(iter) IN
    IF ~r.out.some THEN [samples |-> samples, log |-> log, prev |-> prev]
    ELSE LET pos == r.out.val
             m == MutationVector(pos, iter.dimensions, mutation_scales, all_scale)
         IN Samples_new_loop(
                r.it, System_mutate(prev, m), Append(samples, prev),
                Append(log, [coord |-> pos, pushed |-> prev, mutation |-> m]),
                mutation_scales, all_scale)

\* the run of the loop of Samples::new on its arguments
Samples_new_trace(initial, dimensions, mutation_scales, all_scale) ==
    Samples_new_loop(Dimensions_iter(dimensions), initial, <<>>, <<>>,
                     mutation_scales, all_scale)

\* Samples::new that pushes the accumulator once more after the loop
Samples_new_extra_push(initial, dimensions, mutation_scales, all_scale) ==
    LET r == Samples_new_trace(initial, dimensions, mutation_scales, all_scale)
    IN [dimensions |-> dimensions, samples |-> Append(r.samples, r.prev)]

\* Samples::new
Samples_new(initial, dimensions, mutation_scales, all_scale) ==
    [dimensions |-> dimensions,
     samples |-> Samples_new_trace(initial, dimensions, mutation_scales, all_scale).samples]

\* inner loop that tests the count after the body
RECURSIVE update_times_at_least_once(_, _, _)
update_times_at_least_once(system, iterations, dt) ==
    IF iterations <= 1 THEN System_update(system, dt)
    ELSE update_times_at_least_once(System_update(system, dt), iterations - 1, dt)

\* Samples::update, the inner loop `for _ in 0..iterations`
RECURSIVE update_times(_, _, _)
update_times(system, iterations, dt) ==
    IF iterations = 0 THEN system
    ELSE update_times(System_update(system, dt), iterations - 1, dt)

\* Samples::update, the outer loop `for system in &mut self.samples` from
\* sample k on
RECURSIVE Samples_update_loop(_, _, _, _)
Samples_update_loop(samples, k, iterations, dt) ==
    IF k > Len(samples) THEN samples
    ELSE Samples_update_loop([samples EXCEPT ![k] = update_times(@, iterations, dt)],
                             k + 1, iterations, dt)

\* Samples::update that runs the inner loop once too often
Samples_update_one_more(self, iterations, dt) ==
    [self EXCEPT !.samples = Samples_update_loop(self.samples, 1, iterations + 1, dt)]

\* Samples::update
Samples_update(self, iterations, dt) ==
    [self EXCEPT !.samples = Samples_update_loop(self.samples, 1, iterations, dt)]

\* Samples::iter that pairs sample i with the coordinate of index i + 1
Samples_iter_shifted(self) ==
    [i \in 1..Len(self.samples) |->
        <<index_to_pos(self.dimensions, i), self.samples[i]>>]

\* Samples::iter: the items of the iterator, in order
Samples_iter(self) ==
    [i \in 1..Len(self.samples) |->
        <<index_to_pos(self.dimensions, i - 1), self.samples[i]>>]

\* ------------------------------------------------------------- viewer
\* InitData::init without the initial mutation
InitData_init_unmutated(self) ==
    [initial_mutation |-> self.initial_mutation,
     mutation_scale |-> self.mutation_scale,
     all_scale |-> self.all_scale,
     dt |-> self.dt,
     updates_per_iteration |-> self.updates_per_iteration,
     samples |-> Samples_new(self.initial_sample,
                             self.dimensions, self.mutation_scale, self.all_scale)]

\* InitData::init: a clone of initial_sample is mutated by initial_mutation
\* and handed to Samples::new; the settings are copied into the ViewerState
InitData_init(self) ==
    [initial_mutation |-> self.initial_mutation,
     mutation_scale |-> self.mutation_scale,
     all_scale |-> self.all_scale,
     dt |-> self.dt,
     updates_per_iteration |-> self.updates_per_iteration,
     samples |-> Samples_new(System_mutate(self.initial_sample, self.initial_mutation),
                             self.dimensions, self.mutation_scale, self.all_scale)]

\* reset_layers_sys on the world w = [state, layer_data, layers, camera_z]:
\* on a requested redraw the layers are despawned, the state is replaced by
\* a fresh InitData::init, the camera moves back by current_depth, and
\* current_depth and request_update are cleared
reset_layers_sys(w, init) ==
    IF w.layer_data.request_update
    THEN [state |-> InitData_init(init),
          layers |-> 0,
          camera_z |-> w.camera_z - w.layer_data.current_depth,
          layer_data |-> [w.layer_data EXCEPT !.current_depth = 0,
                                              !.request_update = FALSE]]
    ELSE w

\* while loop whose pass updates the samples twice
RECURSIVE process_layers_loop_two_batches(_, _)
process_layers_loop_two_batches(w, passes) ==
    LET w1 == [w EXCEPT !.camera_z = @ + 1,
                        !.state.samples =
                            Samples_update(
                                Samples_update(@, w.state.updates_per_iteration,
                                               w.state.dt),
                                w.state.updates_per_iteration, w.state.dt),
                        !.layers = @ + 1,
                        !.layer_data.current_depth = @ + 1]
    IN IF w1.layer_data.current_depth >= w1.layer_data.target_depth THEN w1
       ELSE IF passes <= 1 THEN w1
       ELSE process_layers_loop_two_batches(w1, passes - 1)

\* while loop that is ended by the clock only, never by the target depth
RECURSIVE process_layers_loop_no_break(_, _)
process_layers_loop_no_break(w, passes) ==
    LET w1 == [w EXCEPT !.camera_z = @ + 1,
                        !.state.samples =
                            Samples_update(@, w.state.updates_per_iteration, w.state.dt),
                        !.layers = @ + 1,
                        !.layer_data.current_depth = @ + 1]
    IN IF passes <= 1 THEN w1
       ELSE process_layers_loop_no_break(w1, passes - 1)

\* process_layers_sys, the while loop: one pass moves the camera, updates
\* the samples, spawns a layer and increments current_depth; the loop ends
\* when current_depth reaches target_depth or the 10 ms are over, which is
\* after `passes` passes (passes >= 1, the first test of the clock is 0 < 10 ms)
RECURSIVE process_layers_loop(_, _)
process_layers_loop(w, passes) ==
    LET w1 == [w EXCEPT !.camera_z = @ + 1,
                        !.state.samples =
                            Samples_update(@, w.state.updates_per_iteration, w.state.dt),
                        !.layers = @ + 1,
                        !.layer_data.current_depth = @ + 1]
    IN IF w1.layer_data.current_depth >= w1.layer_data.target_depth THEN w1
       ELSE IF passes <= 1 THEN w1
       ELSE process_layers_loop(w1, passes - 1)

\* process_layers_sys
process_layers_sys(w, passes) ==
    IF w.layer_data.current_depth < w.layer_data.target_depth
    THEN process_layers_loop(w, passes)
    ELSE w

\* ----------------------------------------------------- chaotic binary
SAMPLE_SIZE == 1024

\* what `as usize` makes of +inf: usize::MAX, here the largest integer of
\* the model
usize_MAX == 2147483647

\* map_f32_to_index without the cap at len - 1
map_f32_to_index_uncapped(value, n, size) ==
    LET v == IF value > 0 THEN value ELSE 0
    IN IF size # 0 THEN (v * n) \div size
       ELSE IF v * n = 0 THEN 0
       ELSE usize_MAX

\* map_f32_to_index(value, len, size), with n for len: value.max(0.0) * len
\* / size, cast to usize (the fraction is dropped, NaN gives 0, +inf gives
\* usize::MAX), capped at len - 1; value and size are whole numbers of pixels
map_f32_to_index(value, n, size) ==
    LET v == IF value > 0 THEN value ELSE 0
        cast == IF size # 0 THEN (v * n) \div size
                ELSE IF v * n = 0 THEN 0
                ELSE usize_MAX
    IN Min(cast, n - 1)

\* the 1-based position of the first smallest entry among the entries lo
\* to hi of the chaosities: enumerate().min_by(total_cmp) keeps the first
\* of equal minima; the range is halved to keep the nesting shallow
RECURSIVE min_by(_, _, _)
min_by(chaosities, lo, hi) ==
    IF lo = hi THEN lo
    ELSE LET mid == (lo + hi) \div 2
             l == min_by(chaosities, lo, mid)
             r == min_by(chaosities, mid + 1, hi)
         IN IF chaosities[r] < chaosities[l] THEN r ELSE l

\* the F key: the index of the most stable sample, or the index displayed
\* now when there is no sample
most_stable_system_index(chaosities, displayed) ==
    IF Len(chaosities) = 0 THEN displayed
    ELSE min_by(chaosities, 1, Len(chaosities)) - 1

\* Left
display_left(displayed) ==
    IF displayed = 0 THEN SAMPLE_SIZE - 1 ELSE displayed - 1

\* Right
display_right(displayed) ==
    IF displayed + 1 >= SAMPLE_SIZE THEN 0 ELSE displayed + 1

\* ------------------------------------------------ the inputs of the model
\* Extent lists with every extent >= 1 (the invariant of Dimensions)
DimsSet == SeqsUpTo(1..MaxExtent, MaxAxes)

InBounds(d, pos) == Len(pos) = Len(d) /\ \A i \in 1..Len(d) : pos[i] < d[i]

\* The coordinate vectors handed to pos_to_index: those with one entry per
\* axis, in bounds or at most one past the extent, and the same vectors with
\* the last entry dropped or one entry too many.
PosInputs(d) ==
    LET full == {p \in [1..Len(d) -> 0..MaxExtent] : \A i \in 1..Len(d) : p[i] <= d[i]}
    IN full \cup {SubSeq(p, 1, Len(p) - 1) : p \in full} \cup {Append(p, 0) : p \in full}

\* The initial sample of InitData<NBody>::default: three bodies of mass 0.1
\* on the unit circle, 120 degrees apart, with tangential speed 0.31
DefaultNBody ==
    NBody(ONE,
          << Body(100, DVec2(1000, 0), DVec2(0, 310)),
             Body(100, DVec2(-500, 866), DVec2(-268, -155)),
             Body(100, DVec2(-500, -866), DVec2(268, -155)) >>,
          "VelocityToRgb")

\* Two bodies of mass 1 at rest, 2 apart
TwoBodies ==
    NBody(ONE,
          << Body(ONE, DVec2(-1000, 0), DVec2_ZERO),
             Body(ONE, DVec2(1000, 0), DVec2_ZERO) >>,
          "DistanceToLightness")

\* Two bodies of mass 0.1 at the same position, moving together, under a
\* weak gravitational constant (0.001)
Coincident ==
    NBody(1,
          << Body(100, DVec2(500, 500), DVec2(100, -200)),
             Body(100, DVec2(500, 500), DVec2(100, -200)) >>,
          "FirstBodyVelToGB")

\* The initial sample of InitData<Mandelbrot>::default
DefaultMandelbrot == Mandelbrot_new("Distance")

\* the systems mutate and update are called on
SysSeeds == {DefaultNBody, TwoBodies, Coincident, DefaultMandelbrot}

\* the seeds a Samples is built from
SampleSeeds == {TwoBodies, DefaultMandelbrot}

\* the time steps of the two InitData defaults, 0.33 and 0.01
DtSet == {330, 10}
\* the parameters c of the Mandelbrot instances that are iterated from
\* z = 0: inside the set, outside it with |c| <= 2, and with |c| > 2
EscapeAxis == {-2100, -1500, 0, 300, 1500, 2100}
EscapeSeeds ==
    { [DefaultMandelbrot EXCEPT !.c = DVec2(x, y)] : x \in EscapeAxis, y \in EscapeAxis }

\* the grids an iterator is driven over
IterDims == {d \in DimsSet : volume(d) <= MaxIterVolume}

\* the grids two iterators are driven over side by side
PairDims == {d \in DimsSet : volume(d) <= 2 * MaxVolume}

\* the grids a Samples is built for
SampleDims == {d \in DimsSet : volume(d) <= MaxVolume}

\* the time steps a population is updated with: the default dt of the
\* viewer for the kind of the seed
SampleDts(seed) == IF seed.kind = "NBody" THEN {330} ELSE {10}

\* the grids of the populations that are updated call after call
UpdateDims == {d \in SampleDims : Len(d) <= 2}

\* mutation scales per axis: the default [1.0, 1.0], one entry per axis up to
\* four axes, and a single entry
ScalesSet == { <<ONE, ONE>>, <<ONE, 2 * ONE, ONE, 2 * ONE>>, <<2 * ONE>> }

\* the global scale of InitData::default, 0.01
AllScaleSet == {10}

\* perturbations handed to mutate directly
PerturbSet ==
    { <<>>, <<50>>, <<0, 50>>, <<0, 0, 50>>, <<0, 0, 0, 50>>,
      <<0, 0, 0, 0, 50, 0, 50>>, [i \in 1..13 |-> 50] }

\* the settings of the viewer: the two InitData defaults on small grids,
\* with one update per layer (N-body) or one or two (Mandelbrot)
ViewDims == { <<1, 2>>, <<2, 2>> }
ViewMutations == { <<0, 0>>, <<50, 0>> }
ViewUpdates(s) == IF s.kind = "NBody" THEN {1} ELSE {1, 2}
ViewInitData ==
    UNION { { [initial_sample |-> s, initial_mutation |-> <<0, 0>>, dimensions |-> d,
               mutation_scale |-> <<ONE, ONE>>, all_scale |-> 10,
               dt |-> IF s.kind = "NBody" THEN 330 ELSE 10,
               updates_per_iteration |-> u] :
                d \in ViewDims, u \in ViewUpdates(s) } : s \in SampleSeeds }

\* the chaosity of the SAMPLE_SIZE samples of the binary when F is pressed:
\* smallest at the first sample, in the middle, at the last sample, and
\* the same everywhere
ChaosityProfiles ==
    { [i \in 1..SAMPLE_SIZE |-> Abs(i - m)] : m \in {1, SAMPLE_SIZE \div 2, SAMPLE_SIZE} }
        \cup { [i \in 1..SAMPLE_SIZE |-> 7] }

\* window widths in pixels (0: a window without extent) and positions
\* app.mouse.x of the pointer, which is 0 at the middle of the window
WindowWidths == {0, SAMPLE_SIZE, 2 * SAMPLE_SIZE}
MouseXs == {-3000, -1024, -512, -1, 0, 1, 511, 512, 1023, 1024, 3000}

\* the instances handed to lerp and distance as `other`: the seeds, and the
\* seeds with every slot perturbed
SysOthers == SysSeeds \cup {System_mutate(s, [i \in 1..13 |-> 50]) : s \in SysSeeds}

\* `other` has the type of self
Others(self) == {o \in SysOthers : o.kind = self.kind}

\* interpolation factors: both ends and the middle
TSet == {0, ONE \div 2, ONE}

\* ======================================================================
\* Specification SpecConv: the index <-> coordinate conversions
\* ======================================================================
IterIdle ==
    /\ it = Dimensions_iter(dims)
    /\ it_last = None
    /\ yielded = <<>>
    /\ nones = 0
    /\ calls = 0
    /\ it2 = Dimensions_iter(dims)
    /\ yielded2 = <<>>
    /\ calls2 = 0

ConvIdle ==
    /\ op = "none"
    /\ arg_index = 0
    /\ arg_pos = <<>>
    /\ res_pos = <<>>
    /\ res_index = 0
    /\ res_panic = FALSE

\* no lerp or distance call has returned anything
NoResult ==
    /\ sys_other = DefaultMandelbrot
    /\ lerp_res = DefaultMandelbrot
    /\ dist_res = 0
    /\ sys_panic = FALSE

SysIdle ==
    /\ sys = DefaultMandelbrot
    /\ sys_prev = DefaultMandelbrot
    /\ sys_op = "none"
    /\ sys_arg = <<>>
    /\ sys_ops = 0
    /\ NoResult

SamplesIdle ==
    /\ built = FALSE
    /\ population = [dimensions |-> <<>>, samples |-> <<>>]
    /\ mutlog = <<>>
    /\ before = <<>>
    /\ upd = [iterations |-> 0, dt |-> 0]
    /\ before2 = <<>>
    /\ upd2 = [iterations |-> 0, dt |-> 0]
    /\ steps = 0
    /\ updates = 0
    /\ pairs = <<>>

NoSamples ==
    /\ cfg = [seed |-> DefaultMandelbrot, dimensions |-> <<>>,
              mutation_scales |-> <<>>, all_scale |-> 0]
    /\ SamplesIdle

\* the viewer has not been started
ViewerIdle ==
    /\ init_data = [initial_sample |-> DefaultMandelbrot, initial_mutation |-> <<>>,
                    dimensions |-> <<>>, mutation_scale |-> <<>>, all_scale |-> 0,
                    dt |-> 0, updates_per_iteration |-> 0]
    /\ state = [initial_mutation |-> <<>>, mutation_scale |-> <<>>, all_scale |-> 0,
                dt |-> 0, updates_per_iteration |-> 0,
                samples |-> [dimensions |-> <<>>, samples |-> <<>>]]
    /\ layer_data = [target_depth |-> 0, current_depth |-> 0, request_update |-> FALSE]
    /\ layers = 0
    /\ camera_z = 0
    /\ v_last = "none"
    /\ v_prev = [state |-> state, layer_data |-> layer_data,
                 layers |-> 0, camera_z |-> 0]
    /\ v_built = [dimensions |-> <<>>, samples |-> <<>>]

\* the chaotic binary has not been started
BinIdle ==
    /\ display_sample = 0
    /\ app_last = "none"

AppIdle == ViewerIdle /\ BinIdle

InitConv ==
    /\ dims \in DimsSet
    /\ ConvIdle
    /\ IterIdle
    /\ SysIdle
    /\ NoSamples
    /\ AppIdle

\* a call dims.index_to_pos(index); index may lie past the volume
CallIndexToPos ==
    /\ op = "none"
    /\ \E index \in 0..(volume(dims) + 1) :
        /\ op' = "index_to_pos"
        /\ arg_index' = index
        /\ res_pos' = index_to_pos(dims, index)
        /\ res_panic' = FALSE
    /\ UNCHANGED <<dims, appVars, arg_pos, res_index, iterVars, sysVars, samplesVars>>

\* a call dims.pos_to_index(pos); pos may be out of bounds or of another length
CallPosToIndex ==
    /\ op = "none"
    /\ \E pos \in PosInputs(dims) :
        /\ op' = "pos_to_index"
        /\ arg_pos' = pos
        /\ IF pos_to_index_panics(dims, pos)
           THEN res_panic' = TRUE /\ res_index' = 0
           ELSE res_panic' = FALSE /\ res_index' = pos_to_index(dims, pos)
    /\ UNCHANGED <<dims, appVars, arg_index, res_pos, iterVars, sysVars, samplesVars>>

NextConv == CallIndexToPos \/ CallPosToIndex

SpecConv == InitConv /\ [][NextConv]_vars

\* ======================================================================
\* Specification SpecIter: one DimensionsIterator driven by next()
\* ======================================================================
InitIter ==
    /\ dims \in IterDims
    /\ ConvIdle
    /\ IterIdle
    /\ SysIdle
    /\ NoSamples
    /\ AppIdle

\* a call it.next()
IterNext ==
    /\ calls < volume(dims) + ExtraCalls
    /\ LET r == DimensionsIterator_next(it) IN
        /\ it' = r.it
        /\ it_last' = r.out
        /\ yielded' = IF r.out.some THEN Append(yielded, r.out.val) ELSE yielded
        /\ nones' = IF r.out.some THEN nones ELSE nones + 1
    /\ calls' = calls + 1
    /\ UNCHANGED <<dims, appVars, iter2Vars, convVars, sysVars, samplesVars>>

\* a call dims.iter(), replacing the iterator by a fresh one
IterRestart ==
    /\ calls > 0
    /\ it' = Dimensions_iter(dims)
    /\ it_last' = None
    /\ yielded' = <<>>
    /\ nones' = 0
    /\ calls' = 0
    /\ UNCHANGED <<dims, appVars, iter2Vars, convVars, sysVars, samplesVars>>

NextIter == IterNext \/ IterRestart

SpecIter == InitIter /\ [][NextIter]_vars

\* ======================================================================
\* Specification SpecIterPair: two DimensionsIterators obtained from the
\* same Dimensions, each driven by its own next() calls
\* ======================================================================
InitIterPair ==
    /\ dims \in PairDims
    /\ ConvIdle
    /\ IterIdle
    /\ SysIdle
    /\ NoSamples
    /\ AppIdle

\* it2.next() that advances a cursor shared with the first iterator
Iter2Next_shared_cursor ==
    /\ calls2 < volume(dims) + ExtraCalls
    /\ LET r == DimensionsIterator_next(it) IN
        /\ it' = r.it
        /\ it2' = r.it
        /\ yielded2' = IF r.out.some THEN Append(yielded2, r.out.val) ELSE yielded2
    /\ calls2' = calls2 + 1
    /\ UNCHANGED <<dims, appVars, it_last, yielded, nones, calls,
                   convVars, sysVars, samplesVars>>

\* a call it2.next()
Iter2Next ==
    /\ calls2 < volume(dims) + ExtraCalls
    /\ LET r == DimensionsIterator_next(it2) IN
        /\ it2' = r.it
        /\ yielded2' = IF r.out.some THEN Append(yielded2, r.out.val) ELSE yielded2
    /\ calls2' = calls2 + 1
    /\ UNCHANGED <<dims, appVars, it, it_last, yielded, nones, calls,
                   convVars, sysVars, samplesVars>>

\* a call dims.iter(), replacing the second iterator by a fresh one
Iter2Restart ==
    /\ calls2 > 0
    /\ it2' = Dimensions_iter(dims)
    /\ yielded2' = <<>>
    /\ calls2' = 0
    /\ UNCHANGED <<dims, appVars, it, it_last, yielded, nones, calls,
                   convVars, sysVars, samplesVars>>

NextIterPair == IterNext \/ IterRestart \/ Iter2Next \/ Iter2Restart

SpecIterPair == InitIterPair /\ [][NextIterPair]_vars

\* ======================================================================
\* Specification SpecSys: one ChaoticSystem value under mutate, update,
\* lerp and distance
\* ======================================================================
InitSys ==
    /\ dims = <<>>
    /\ ConvIdle
    /\ IterIdle
    /\ sys \in SysSeeds
    /\ sys_prev = sys
    /\ sys_op = "none"
    /\ sys_arg = <<>>
    /\ sys_ops = 0
    /\ NoResult
    /\ NoSamples
    /\ AppIdle

\* a call sys.mutate(pos)
SysMutate ==
    /\ sys_ops < MaxSysOps
    /\ \E pos \in PerturbSet :
        /\ sys' = System_mutate(sys, pos)
        /\ sys_arg' = pos
    /\ sys_prev' = sys
    /\ sys_op' = "mutate"
    /\ sys_ops' = sys_ops + 1
    /\ sys_other' = DefaultMandelbrot
    /\ lerp_res' = DefaultMandelbrot
    /\ dist_res' = 0
    /\ sys_panic' = FALSE
    /\ UNCHANGED <<dims, appVars, convVars, iterVars, samplesVars>>

\* a call sys.update(dt)
SysUpdate ==
    /\ sys_ops < MaxSysOps
    /\ \E dt \in DtSet :
        /\ sys' = System_update(sys, dt)
        /\ sys_arg' = <<dt>>
    /\ sys_prev' = sys
    /\ sys_op' = "update"
    /\ sys_ops' = sys_ops + 1
    /\ sys_other' = DefaultMandelbrot
    /\ lerp_res' = DefaultMandelbrot
    /\ dist_res' = 0
    /\ sys_panic' = FALSE
    /\ UNCHANGED <<dims, appVars, convVars, iterVars, samplesVars>>

\* a call sys.lerp(&other, t): sys is only read; the call panics when the
\* body counts differ
SysLerp ==
    /\ sys_ops < MaxSysOps
    /\ \E other \in Others(sys), t \in TSet :
        /\ sys_other' = other
        /\ sys_arg' = <<t>>
        /\ IF System_lerp_panics(sys, other)
           THEN sys_panic' = TRUE /\ lerp_res' = DefaultMandelbrot
           ELSE sys_panic' = FALSE /\ lerp_res' = System_lerp(sys, other, t)
    /\ dist_res' = 0
    /\ sys_prev' = sys
    /\ sys_op' = "lerp"
    /\ sys_ops' = sys_ops + 1
    /\ UNCHANGED <<sys, dims, appVars, convVars, iterVars, samplesVars>>

\* a call sys.distance(&other): sys is only read
SysDistance ==
    /\ sys_ops < MaxSysOps
    /\ \E other \in Others(sys) :
        /\ sys_other' = other
        /\ dist_res' = System_distance(sys, other)
    /\ sys_arg' = <<>>
    /\ lerp_res' = DefaultMandelbrot
    /\ sys_panic' = FALSE
    /\ sys_prev' = sys
    /\ sys_op' = "distance"
    /\ sys_ops' = sys_ops + 1
    /\ UNCHANGED <<sys, dims, appVars, convVars, iterVars, samplesVars>>

\* ======================================================================
\* Specification SpecEscape: one Mandelbrot instance, started at z = 0 with
\* some c, under repeated update
\* ======================================================================
InitEscape ==
    /\ dims = <<>>
    /\ ConvIdle
    /\ IterIdle
    /\ sys \in EscapeSeeds
    /\ sys_prev = sys
    /\ sys_op = "none"
    /\ sys_arg = <<>>
    /\ sys_ops = 0
    /\ NoResult
    /\ NoSamples
    /\ AppIdle

EscapeUpdate ==
    /\ sys_ops < MaxEscapeSteps
    /\ \E dt \in DtSet :
        /\ sys' = Mandelbrot_update(sys, dt)
        /\ sys_arg' = <<dt>>
    /\ sys_prev' = sys
    /\ sys_op' = "update"
    /\ sys_ops' = sys_ops + 1
    /\ UNCHANGED <<sys_other, lerp_res, dist_res, sys_panic>>
    /\ UNCHANGED <<dims, appVars, convVars, iterVars, samplesVars>>

NextEscape == EscapeUpdate

SpecEscape == InitEscape /\ [][NextEscape]_vars

\* ======================================================================
\* Specification SpecBin: the events of the chaotic binary that write
\* display_sample
\* ======================================================================
\* model(): create_samples returns index 0
InitBin ==
    /\ dims = <<>>
    /\ ConvIdle
    /\ IterIdle
    /\ SysIdle
    /\ NoSamples
    /\ ViewerIdle
    /\ display_sample = 0
    /\ app_last = "none"

\* Key::R: Model::reset
KeyR ==
    /\ display_sample' = 0
    /\ app_last' = "R"
    /\ UNCHANGED <<dims, viewerVars, convVars, iterVars, sysVars, samplesVars>>

KeyLeft ==
    /\ display_sample' = display_left(display_sample)
    /\ app_last' = "Left"
    /\ UNCHANGED <<dims, viewerVars, convVars, iterVars, sysVars, samplesVars>>

KeyRight ==
    /\ display_sample' = display_right(display_sample)
    /\ app_last' = "Right"
    /\ UNCHANGED <<dims, viewerVars, convVars, iterVars, sysVars, samplesVars>>

KeyF ==
    /\ \E chaosities \in ChaosityProfiles :
        display_sample' = most_stable_system_index(chaosities, display_sample)
    /\ app_last' = "F"
    /\ UNCHANGED <<dims, viewerVars, convVars, iterVars, sysVars, samplesVars>>

\* MousePressed(MouseButton::Left)
MousePressedLeft ==
    /\ \E width \in WindowWidths, x \in MouseXs :
        display_sample' = map_f32_to_index(x + width \div 2, SAMPLE_SIZE, width)
    /\ app_last' = "Mouse"
    /\ UNCHANGED <<dims, viewerVars, convVars, iterVars, sysVars, samplesVars>>

NextBin == KeyR \/ KeyLeft \/ KeyRight \/ KeyF \/ MousePressedLeft

SpecBin == InitBin /\ [][NextBin]_vars

NextSys == SysMutate \/ SysUpdate \/ SysLerp \/ SysDistance

SpecSys == InitSys /\ [][NextSys]_vars

\* ======================================================================
\* Specification SpecSamples: a Samples value built and advanced
\* ======================================================================
InitSamples ==
    /\ dims = <<>>
    /\ ConvIdle
    /\ IterIdle
    /\ SysIdle
    /\ cfg \in [seed : SampleSeeds, dimensions : SampleDims,
                mutation_scales : ScalesSet, all_scale : AllScaleSet]
    /\ SamplesIdle
    /\ AppIdle

\* Samples::new(cfg.seed, cfg.dimensions, &cfg.mutation_scales, cfg.all_scale)
SamplesNew ==
    /\ ~built
    /\ built' = TRUE
    /\ population' = Samples_new(cfg.seed, cfg.dimensions,
                                 cfg.mutation_scales, cfg.all_scale)
    /\ mutlog' = Samples_new_trace(cfg.seed, cfg.dimensions,
                                   cfg.mutation_scales, cfg.all_scale).log
    /\ UNCHANGED <<dims, appVars, convVars, iterVars, sysVars,
                   cfg, before, before2, upd, upd2, steps, updates, pairs>>

\* population.update(iterations, dt), but for the record of the call before
SamplesUpdateCall ==
    /\ built
    /\ \E iterations \in 0..MaxSteps, dt \in SampleDts(cfg.seed) :
        /\ steps + iterations <= MaxSteps
        /\ population' = Samples_update(population, iterations, dt)
        /\ upd' = [iterations |-> iterations, dt |-> dt]
        /\ steps' = steps + iterations
    /\ updates < MaxSteps
    /\ before' = population.samples
    /\ updates' = updates + 1
    /\ pairs' = <<>>
    /\ UNCHANGED <<dims, appVars, convVars, iterVars, sysVars, cfg, built, mutlog>>

\* population.update(iterations, dt)
SamplesUpdate ==
    /\ SamplesUpdateCall
    /\ UNCHANGED <<before2, upd2>>

\* population.iter(), collected
SamplesIter ==
    /\ built
    /\ pairs = <<>>
    /\ pairs' = Samples_iter(population)
    /\ UNCHANGED <<dims, appVars, convVars, iterVars, sysVars,
                   cfg, built, population, mutlog, before, before2, upd, upd2,
                   steps, updates>>

NextSamples == SamplesNew \/ SamplesUpdate \/ SamplesIter

SpecSamples == InitSamples /\ [][NextSamples]_vars

\* ======================================================================
\* Specification SpecUpdates: a Samples under calls of update, each call
\* remembering the call before it
\* ======================================================================
InitUpdates ==
    /\ dims = <<>>
    /\ ConvIdle
    /\ IterIdle
    /\ SysIdle
    /\ cfg \in [seed : SampleSeeds, dimensions : UpdateDims,
                mutation_scales : {<<ONE, ONE>>}, all_scale : AllScaleSet]
    /\ SamplesIdle
    /\ AppIdle

\* population.update(iterations, dt); the call before it is kept in
\* before2 and upd2
SamplesUpdateAgain ==
    /\ SamplesUpdateCall
    /\ before2' = before
    /\ upd2' = upd

NextUpdates == SamplesNew \/ SamplesUpdateAgain

SpecUpdates == InitUpdates /\ [][NextUpdates]_vars

\* ======================================================================
\* Specification SpecViewer: the viewer resources under gui_system,
\* reset_layers_sys and process_layers_sys, run in any order
\* ======================================================================
World == [state |-> state, layer_data |-> layer_data,
          layers |-> layers, camera_z |-> camera_z]

\* after Startup: InitData and LayerData at their (scaled) defaults, the
\* ViewerState built by InitData::init, one MainCamera, no layer
InitViewer ==
    /\ dims = <<>>
    /\ ConvIdle
    /\ IterIdle
    /\ SysIdle
    /\ NoSamples
    /\ init_data \in ViewInitData
    /\ state = InitData_init(init_data)
    /\ layer_data \in [target_depth : 0..MaxDepth, current_depth : {0},
                        request_update : {FALSE}]
    /\ layers = 0
    /\ camera_z = 0
    /\ v_last = "none"
    /\ v_prev = [state |-> state, layer_data |-> layer_data,
                 layers |-> 0, camera_z |-> 0]
    /\ v_built = state.samples
    /\ BinIdle

\* a run of gui_system in which the user changes something; the pointer
\* works one widget in a frame: the target depth, the grid size, the
\* initial mutation, or the Redraw button
GuiSystem ==
    /\ \/ \E t \in 0..MaxDepth :
            /\ t # layer_data.target_depth
            /\ layer_data' = [layer_data EXCEPT !.target_depth = t]
            /\ UNCHANGED init_data
       \/ \E d \in ViewDims :
            /\ d # init_data.dimensions
            /\ init_data' = [init_data EXCEPT !.dimensions = d]
            /\ UNCHANGED layer_data
       \/ \E m \in ViewMutations :
            /\ m # init_data.initial_mutation
            /\ init_data' = [init_data EXCEPT !.initial_mutation = m]
            /\ UNCHANGED layer_data
       \/ /\ layer_data' = [layer_data EXCEPT !.request_update = TRUE]
          /\ UNCHANGED init_data
    /\ v_last' = "gui"
    /\ v_prev' = World
    /\ UNCHANGED <<state, layers, camera_z, v_built>>
    /\ UNCHANGED <<dims, binVars, convVars, iterVars, sysVars, samplesVars>>

\* a run of reset_layers_sys
ResetLayersSys ==
    /\ \E w \in {reset_layers_sys(World, init_data)} :
        /\ state' = w.state
        /\ layer_data' = w.layer_data
        /\ layers' = w.layers
        /\ camera_z' = w.camera_z
        /\ v_built' = IF layer_data.request_update THEN w.state.samples ELSE v_built
    /\ v_last' = "reset"
    /\ v_prev' = World
    /\ UNCHANGED init_data
    /\ UNCHANGED <<dims, binVars, convVars, iterVars, sysVars, samplesVars>>

\* a run of process_layers_sys; the clock decides how many passes fit
ProcessLayersSys ==
    /\ \E passes \in 1..MaxLayersPerRun :
        \E w \in {process_layers_sys(World, passes)} :
        /\ state' = w.state
        /\ layer_data' = w.layer_data
        /\ layers' = w.layers
        /\ camera_z' = w.camera_z
    /\ v_last' = "process"
    /\ v_prev' = World
    /\ UNCHANGED <<init_data, v_built>>
    /\ UNCHANGED <<dims, binVars, convVars, iterVars, sysVars, samplesVars>>

NextViewer == GuiSystem \/ ResetLayersSys \/ ProcessLayersSys

SpecViewer == InitViewer /\ [][NextViewer]_vars

\* a run of reset_layers_sys, or of process_layers_sys, would change the
\* state of the model: ENABLED <<ResetLayersSys>>_vars and
\* ENABLED <<ProcessLayersSys>>_vars, written out
ResetCanAct ==
    layer_data.request_update \/ v_last # "reset" \/ v_prev # World
ProcessCanAct ==
    \/ layer_data.current_depth < layer_data.target_depth
    \/ v_last # "process"
    \/ v_prev # World

\* the Update schedule runs reset_layers_sys and process_layers_sys in
\* every frame, so neither waits for ever: weak fairness of both, which is
\* WF_vars(ResetLayersSys) /\ WF_vars(ProcessLayersSys) with ENABLED in the
\* written-out form and the steps of the two actions told by v_last
SpecViewerFair ==
    /\ SpecViewer
    /\ ([]<>(~ResetCanAct) \/ []<><<v_last' = "reset">>_vars)
    /\ ([]<>(~ProcessCanAct) \/ []<><<v_last' = "process">>_vars)

\* ======================================================================
\* Properties of Dimensions
\* ======================================================================
\* Product of the extents of the axes before axis i (1-based)
RECURSIVE PrefixProduct(_, _)
PrefixProduct(d, i) == IF i <= 1 THEN 1 ELSE d[i - 1] * PrefixProduct(d, i - 1)

\* Sum over the axes 1..n of p[i] * PrefixProduct(d, i)
RECURSIVE RowMajorSum(_, _, _)
RowMajorSum(d, p, n) ==
    IF n = 0 THEN 0 ELSE p[n] * PrefixProduct(d, n) + RowMajorSum(d, p, n - 1)

\* C1: index_to_pos and pos_to_index are exact inverses: converting a flat
\* index below the volume to a coordinate and back gives the index, and
\* converting an in-bounds coordinate to an index and back gives the
\* coordinate.
C1_RoundTrip ==
    /\ (op = "index_to_pos" /\ arg_index < volume(dims))
            => /\ ~pos_to_index_panics(dims, res_pos)
               /\ pos_to_index(dims, res_pos) = arg_index
    /\ (op = "pos_to_index" /\ InBounds(dims, arg_pos))
            => /\ ~res_panic
               /\ index_to_pos(dims, res_index) = arg_pos

C1_Witness ==
    /\ op = "pos_to_index"
    /\ InBounds(dims, arg_pos)
    /\ Len(dims) = 3
    /\ \A i \in 1..3 : arg_pos[i] > 0
    /\ index_to_pos(dims, res_index) = arg_pos

\* C2: for an in-bounds coordinate p, pos_to_index(p) is the sum over the
\* axes of p[i] times the product of the extents of the axes before i, and
\* lies in [0, volume).
C2_RowMajor ==
    (op = "pos_to_index" /\ InBounds(dims, arg_pos))
        => /\ ~res_panic
           /\ res_index = RowMajorSum(dims, arg_pos, Len(dims))
           /\ 0 <= res_index
           /\ res_index < volume(dims)

C2_Witness ==
    /\ op = "pos_to_index"
    /\ dims = <<2, 3, 3>>
    /\ arg_pos = <<1, 2, 2>>
    /\ res_index = 17

\* C3: for a flat index k below the volume, index_to_pos(k) has one entry
\* per axis, entry i is (k div product of the extents before i) mod
\* extent[i], and every entry is in [0, extent[i]).
C3_IndexToPos ==
    (op = "index_to_pos" /\ arg_index < volume(dims))
        => /\ Len(res_pos) = len(dims)
           /\ \A i \in 1..Len(dims) :
                /\ res_pos[i] = (arg_index \div PrefixProduct(dims, i)) % dims[i]
                /\ 0 <= res_pos[i]
                /\ res_pos[i] < dims[i]

C3_Witness ==
    /\ op = "index_to_pos"
    /\ dims = <<2, 3, 3>>
    /\ arg_index = 17
    /\ res_pos = <<1, 2, 2>>

\* C4: with at least one axis, a fresh iterator yields, before its first
\* None, exactly volume() coordinates, pairwise distinct and in bounds, and
\* the k-th one (from 0) is index_to_pos(k): all-zero first, axis 0 fastest.
C4_IterEnumerates ==
    Len(dims) >= 1 =>
        /\ nones = 0 =>
            /\ Len(yielded) <= volume(dims)
            /\ \A k \in 1..Len(yielded) :
                /\ yielded[k] = index_to_pos(dims, k - 1)
                /\ InBounds(dims, yielded[k])
            /\ \A j, k \in 1..Len(yielded) : j # k => yielded[j] # yielded[k]
            /\ Len(yielded) >= 1 => yielded[1] = [i \in 1..Len(dims) |-> 0]
        /\ (nones = 1 /\ calls > 0 /\ ~it_last.some) => Len(yielded) = volume(dims)

C4_Witness ==
    /\ Len(dims) = 3
    /\ volume(dims) >= 18
    /\ nones = 1
    /\ ~it_last.some
    /\ Len(yielded) = volume(dims)
    /\ yielded[volume(dims)] = [i \in 1..3 |-> dims[i] - 1]

\* ======================================================================
\* Properties of Samples
\* ======================================================================
\* the seed after the first n mutate calls recorded in log, in order
RECURSIVE ApplyMutations(_, _, _)
ApplyMutations(seed, log, n) ==
    IF n = 0 THEN seed
    ELSE System_mutate(ApplyMutations(seed, log, n - 1), log[n].mutation)

\* the system s after n single steps of length dt
RECURSIVE Iterated(_, _, _)
Iterated(s, n, dt) ==
    IF n = 0 THEN s ELSE System_update(Iterated(s, n - 1, dt), dt)

Reverse(q) == [i \in 1..Len(q) |-> q[Len(q) + 1 - i]]

\* C5: for dimensions with 1 to 4 axes and extents >= 1, the number of
\* samples equals dimensions.volume() right after Samples::new and after
\* any sequence of update calls.
C5_PopulationSize ==
    (built /\ Len(cfg.dimensions) >= 1 /\ Len(cfg.dimensions) <= 4)
        => /\ population.dimensions = cfg.dimensions
           /\ Len(population.samples) = volume(population.dimensions)

C5_Witness ==
    /\ built
    /\ Len(cfg.dimensions) = 4
    /\ volume(cfg.dimensions) = 4
    /\ updates = 2
    /\ steps = 2
    /\ Len(population.samples) = 4

\* C6: Samples::new is cumulative: sample 0 is the unmodified seed and
\* sample k > 0 is the seed after the mutate calls for the coordinates of
\* indices 0..k-1, applied in enumeration order.
C6_Cumulative ==
    (built /\ updates = 0)
        => /\ Len(mutlog) = Len(population.samples)
           /\ \A k \in 1..Len(population.samples) :
                population.samples[k] = ApplyMutations(cfg.seed, mutlog, k - 1)
           /\ Len(population.samples) >= 1 => population.samples[1] = cfg.seed

C6_Witness ==
    /\ built
    /\ updates = 0
    /\ Len(population.samples) >= 3
    /\ population.samples[3] = ApplyMutations(cfg.seed, mutlog, 2)
    /\ population.samples[3] # System_mutate(cfg.seed, mutlog[2].mutation)
    /\ population.samples[3] # population.samples[2]

C8_UpdateAdvancesEachSample ==
    (built /\ updates > 0)
        => /\ Len(population.samples) = Len(before)
           /\ \A k \in 1..Len(before) :
                population.samples[k] = Iterated(before[k], upd.iterations, upd.dt)
           /\ population.samples
                = Reverse(Samples_update([dimensions |-> population.dimensions,
                                          samples |-> Reverse(before)],
                                         upd.iterations, upd.dt).samples)

C8_Witness ==
    /\ built
    /\ updates > 0
    /\ upd.iterations = 2
    /\ Len(population.samples) >= 3
    /\ population.samples[1] # population.samples[3]
    /\ \A k \in 1..3 : population.samples[k] # before[k]

\* C9: the sample at index k is the one created for the k-th coordinate of
\* dimensions.iter(), and Samples::iter() yields, for k = 0..len-1 in
\* order, the pair (index_to_pos(k), samples[k]).
C9_Aligned ==
    built =>
        /\ Len(mutlog) = Len(population.samples)
        /\ \A k \in 1..Len(mutlog) :
            /\ mutlog[k].coord = index_to_pos(population.dimensions, k - 1)
            /\ updates = 0 => population.samples[k] = mutlog[k].pushed
        /\ pairs # <<>> =>
            /\ Len(pairs) = Len(population.samples)
            /\ \A k \in 1..Len(pairs) :
                /\ pairs[k][1] = mutlog[k].coord
                /\ pairs[k][2] = population.samples[k]

C9_Witness ==
    /\ built
    /\ updates > 0
    /\ cfg.dimensions = <<2, 2>>
    /\ Len(pairs) = 4
    /\ pairs[3][1] = <<0, 1>>
    /\ pairs[3][2] = population.samples[3]
    /\ pairs[3][2] # pairs[2][2]

\* ======================================================================
\* Properties of the dynamical systems
\* ======================================================================
\* C10: one NBody step computes the acceleration of every body from the
\* positions all bodies had at the start of the step, then updates the
\* velocities and then the positions with the updated velocities: the
\* force on body j does not see the position body i < j gets in the step.
C10_ForcesFromStartOfStep ==
    (sys_op = "update" /\ sys.kind = "NBody")
        => \A i \in 1..Len(sys.bodies) :
            sys.bodies[i] = moved(sys_prev.bodies[i],
                                  acceleration(sys_prev.g, sys_prev.bodies, i),
                                  sys_arg[1])

\* C11: each Mandelbrot mutate call replaces c with the first two slots of
\* the perturbation (a missing slot reads as 0) instead of adding to it:
\* after mutate(p), c is (p[0], p[1]) whatever c was before, and z is
\* unchanged.
C11_MutateReplacesC ==
    (sys_op = "mutate" /\ sys.kind = "Mandelbrot")
        => /\ sys.c = DVec2(get_or_default(sys_arg, 0), get_or_default(sys_arg, 1))
           /\ sys.z = sys_prev.z

\* slot i (0-based) of the perturbation p, 0 where p has no such slot
Slot(p, i) == IF i < Len(p) THEN p[i + 1] ELSE 0

\* C12: NBody mutate(p) adds p[4b] to body b's velocity.x, p[4b+1] to its
\* velocity.y, p[4b+2] to its position.x and p[4b+3] to its position.y; a
\* field without a slot in p is unchanged, entries of p past 4 * body count
\* are ignored, and the masses, g and the body count never change.
C12_MutateFrame ==
    (sys_op = "mutate" /\ sys.kind = "NBody")
        => /\ Len(sys.bodies) = Len(sys_prev.bodies)
           /\ sys.g = sys_prev.g
           /\ \A b \in 1..Len(sys_prev.bodies) :
                LET old == sys_prev.bodies[b]
                    new == sys.bodies[b]
                    k == 4 * (b - 1)
                IN /\ new.velocity.x = old.velocity.x + Slot(sys_arg, k)
                   /\ new.velocity.y = old.velocity.y + Slot(sys_arg, k + 1)
                   /\ new.position.x = old.position.x + Slot(sys_arg, k + 2)
                   /\ new.position.y = old.position.y + Slot(sys_arg, k + 3)
                   /\ new.mass = old.mass

C12_Witness ==
    /\ sys_op = "mutate"
    /\ sys.kind = "NBody"
    /\ Len(sys.bodies) = 2
    /\ Len(sys_arg) = 7
    /\ sys.bodies[2].velocity.x = sys_prev.bodies[2].velocity.x + 50
    /\ sys.bodies[2].position.x = sys_prev.bodies[2].position.x + 50
    /\ sys.bodies[2].position.y = sys_prev.bodies[2].position.y
    /\ sys.bodies[1] = sys_prev.bodies[1]
    /\ sys_ops >= 2

\* C13: for every model, lerp(other, 0) returns an instance equal to self in
\* every field and lerp(other, 1) returns an instance equal to other in
\* every field: positions, velocities, masses, g, z, c and the stored colour
\* schema.
C13_LerpEndpoints ==
    (sys_op = "lerp" /\ ~sys_panic)
        => /\ sys_arg[1] = 0 => lerp_res = sys
           /\ sys_arg[1] = ONE => lerp_res = sys_other

\* ======================================================================
\* Out-of-range conversions
\* ======================================================================
\* C14: out-of-range indexing fails loudly instead of wrapping:
\* index_to_pos(k) with k >= volume(), and pos_to_index(p) with some p[i] >=
\* extent[i] or with p of the wrong length, produce an explicit error and
\* never return a coordinate or an index.
C14_OutOfRangeFailsLoudly ==
    /\ (op = "index_to_pos" /\ arg_index >= volume(dims)) => res_panic
    /\ (op = "pos_to_index" /\ ~InBounds(dims, arg_pos)) => res_panic

\* ======================================================================
\* More properties of the dynamical systems
\* ======================================================================
\* C15: in NBody advance a pair of bodies whose squared separation is below
\* EPSILON contributes no force for that step, so with two coincident bodies
\* each velocity is unchanged and each position moves by velocity * dt.
C15_CoincidentNoForce ==
    (/\ sys_op = "update"
     /\ sys.kind = "NBody"
     /\ Len(sys_prev.bodies) = 2
     /\ length_squared(VSub(sys_prev.bodies[1].position,
                            sys_prev.bodies[2].position)) < EPSILON)
        => \A i \in 1..2 :
            /\ sys.bodies[i].velocity = sys_prev.bodies[i].velocity
            /\ sys.bodies[i].position
                    = VAdd(sys_prev.bodies[i].position,
                           VScale(sys_prev.bodies[i].velocity, sys_arg[1]))

\* C17: a Mandelbrot instance with z = 0 and c = 0 still has z = 0 and c = 0
\* after an update call, for any dt; so it stays there under any number of
\* update calls.
C17_ZeroIsFixed ==
    [][(/\ sys.kind = "Mandelbrot"
        /\ sys.z = DVec2_ZERO
        /\ sys.c = DVec2_ZERO
        /\ sys_op' = "update"
        /\ sys_ops' = sys_ops + 1)
            => (sys'.z = DVec2_ZERO /\ sys'.c = DVec2_ZERO)]_vars

C17_Witness ==
    /\ sys.kind = "Mandelbrot"
    /\ sys_op = "update"
    /\ sys_ops = 3
    /\ sys_arg = <<330>>
    /\ sys_prev.z = DVec2_ZERO
    /\ sys_prev.c = DVec2_ZERO
    /\ sys.z = DVec2_ZERO
    /\ sys.c = DVec2_ZERO

\* ======================================================================
\* Properties of two iterators over the same Dimensions
\* ======================================================================
\* the two iterators agree on what they have yielded and where they stand
C18_SameSequence ==
    /\ it.dimensions = dims
    /\ it2.dimensions = dims
    /\ \A k \in 1..Min(Len(yielded), Len(yielded2)) : yielded[k] = yielded2[k]
    /\ Len(yielded) >= 1 => yielded[1] = [i \in 1..Len(dims) |-> 0]
    /\ Len(yielded2) >= 1 => yielded2[1] = [i \in 1..Len(dims) |-> 0]
    /\ calls = calls2 => (it = it2 /\ yielded = yielded2)

\* a next() call on one iterator leaves the other one and the Dimensions alone
C18_Frame ==
    /\ calls' = calls + 1 => (it2' = it2 /\ dims' = dims)
    /\ calls2' = calls2 + 1 => (it' = it /\ dims' = dims)

\* C18: each call to Dimensions::iter() starts a fresh traversal at the
\* all-zero coordinate, independent of any other iterator: advancing one
\* iterator changes neither the Dimensions value nor the position of
\* another iterator obtained from the same Dimensions, and two fresh
\* iterators yield the same sequence.
C18_IndependentIterators == [](C18_SameSequence) /\ [][C18_Frame]_vars

C18_Witness ==
    /\ dims = <<2, 2, 2>>
    /\ calls = 6
    /\ calls2 = 3
    /\ it.coordinates = <<1, 0, 1>>
    /\ it2.coordinates = <<0, 1, 0>>
    /\ yielded2 = SubSeq(yielded, 1, 3)

\* ======================================================================
\* Properties of distance
\* ======================================================================
\* the sum over the bodies 1..n of the distance between the velocities of
\* the corresponding bodies of a and b
RECURSIVE VelocityDistanceSum(_, _, _)
VelocityDistanceSum(a, b, n) ==
    IF n = 0 THEN 0
    ELSE DVec2_distance(a.bodies[n].velocity, b.bodies[n].velocity)
            + VelocityDistanceSum(a, b, n - 1)

\* C19: NBody distance(other) is the average, over the bodies, of the
\* Euclidean distance between the velocities of corresponding bodies: the
\* sum of the per-body distances divided by the number of bodies, for every
\* body count.
C19_DistanceIsAverage ==
    (/\ sys_op = "distance"
     /\ sys.kind = "NBody"
     /\ Len(sys.bodies) = Len(sys_other.bodies))
        => dist_res = FDiv(VelocityDistanceSum(sys, sys_other, Len(sys.bodies)),
                           Len(sys.bodies) * ONE)

\* ======================================================================
\* Short mutation-scale vectors
\* ======================================================================
\* the scales followed by one 0 for every axis without a scale entry
PadZero(mutation_scales, n) ==
    [i \in 1..n |-> IF i <= Len(mutation_scales) THEN mutation_scales[i] ELSE 0]

C21_ResetReplacesState ==
    [][ v_last' = "reset" =>
          IF layer_data.request_update
          THEN /\ state'.samples
                    = Samples_new(System_mutate(init_data.initial_sample,
                                                init_data.initial_mutation),
                                  init_data.dimensions, init_data.mutation_scale,
                                  init_data.all_scale)
               /\ state'.initial_mutation = init_data.initial_mutation
               /\ state'.mutation_scale = init_data.mutation_scale
               /\ state'.all_scale = init_data.all_scale
               /\ state'.dt = init_data.dt
               /\ state'.updates_per_iteration = init_data.updates_per_iteration
               /\ layers' = 0
               /\ layer_data'.current_depth = 0
               /\ layer_data'.request_update = FALSE
               /\ layer_data'.target_depth = layer_data.target_depth
               /\ init_data' = init_data
          ELSE /\ state' = state
               /\ layer_data' = layer_data
               /\ layers' = layers
               /\ camera_z' = camera_z
               /\ init_data' = init_data ]_vars

\* a redraw of an advanced population with a changed grid and a non-zero
\* initial mutation has run
C21_Witness ==
    /\ v_last = "reset"
    /\ v_prev.layer_data.request_update
    /\ v_prev.layer_data.current_depth >= 2
    /\ v_prev.state.samples.dimensions # init_data.dimensions
    /\ init_data.initial_mutation = <<50, 0>>
    /\ state.samples # v_prev.state.samples
    /\ state.samples.samples[1] # init_data.initial_sample
    /\ layer_data.current_depth = 0
    /\ ~layer_data.request_update

\* ======================================================================
\* Properties of the Mandelbrot escape
\* ======================================================================
\* |c| > 2, exactly
C22_Outside(c) == length_squared(c) > 4 * ONE * ONE

\* C22: for a Mandelbrot instance started at z = 0 with |c| > 2, every
\* update after the first strictly increases the squared magnitude of z,
\* and after a bounded number of updates (MaxEscapeSteps) the squared
\* magnitude exceeds every fixed bound the range of f64 has room for.
C22_EscapeMonotone ==
    /\ [][ (sys_op' = "update" /\ sys_ops >= 1 /\ C22_Outside(sys.c))
            => f64_gt(f64_length_squared(sys'.z), f64_length_squared(sys.z)) ]_vars
    /\ [](  (sys_op = "update" /\ sys_ops = MaxEscapeSteps /\ C22_Outside(sys.c))
            => f64_gt(f64_length_squared(sys.z), F64_MAX) )

\* ======================================================================
\* Properties of Samples::update
\* ======================================================================
\* the fields of a system that are parameters, not degrees of freedom
C23_Fixed(system) ==
    IF system.kind = "NBody"
    THEN [g |-> system.g, color_schema |-> system.color_schema,
          masses |-> [i \in 1..Len(system.bodies) |-> system.bodies[i].mass]]
    ELSE [c |-> system.c, color_schema |-> system.color_schema]

\* C23: Samples::update changes only the mutable degrees of freedom: after
\* any sequence of update calls the population has the dimensions and the
\* number of samples it was constructed with, and every sample has the
\* fixed parameters it was pushed with (N-body: each body's mass, g, the
\* body count and the colour schema; Mandelbrot: c and the colour schema).
C23_UpdateFrame ==
    built =>
        /\ population.dimensions = cfg.dimensions
        /\ Len(population.samples) = Len(mutlog)
        /\ \A k \in 1..Len(mutlog) :
            /\ population.samples[k].kind = mutlog[k].pushed.kind
            /\ C23_Fixed(population.samples[k]) = C23_Fixed(mutlog[k].pushed)

\* two updates have moved every sample of a mutated Mandelbrot population
\* and of an N-body population
C23_Witness ==
    /\ built
    /\ updates = 2
    /\ steps = 2
    /\ Len(population.samples) = 4
    /\ \A k \in 1..4 : population.samples[k] # mutlog[k].pushed
    /\ population.samples[2].kind = "Mandelbrot"
        => population.samples[2].c # DVec2_ZERO

\* ======================================================================
\* Properties of the empty extent list
\* ======================================================================

\* C24: a Dimensions with zero axes is a scalar grid throughout: volume()
\* is 1, dimensions.iter() yields exactly volume() coordinates (the loop of
\* Samples::new runs volume() times) and Samples::new builds exactly
\* volume() samples.
C24_EmptyIsScalarGrid ==
    (built /\ Len(cfg.dimensions) = 0)
        => /\ volume(cfg.dimensions) = 1
           /\ Len(mutlog) = volume(cfg.dimensions)
           /\ Len(population.samples) = volume(cfg.dimensions)

\* ======================================================================
\* Properties of an exhausted DimensionsIterator
\* ======================================================================

\* C25: the enumeration stays finished: once next() has returned None on an
\* iterator, every later call of next() on that iterator returns None too.
C25_StaysFinished == nones >= 1 => ~it_last.some

\* C26: Samples::update composes additively in the iteration count: after
\* update(a, dt) followed by update(b, dt) with the same dt, the population
\* is the one a single update(a + b, dt) of the population before the two
\* calls gives, sample by sample; and update(0, dt) leaves the population
\* as it was.
C26_UpdateAdditive ==
    /\ (updates >= 2 /\ upd.dt = upd2.dt)
        => /\ Len(population.samples) = Len(before2)
           /\ \A k \in 1..Len(before2) :
                population.samples[k]
                    = Iterated(before2[k], upd2.iterations + upd.iterations, upd.dt)
    /\ (updates >= 1 /\ upd.iterations = 0)
        => population.samples = before

\* update(1, dt) twice has moved four samples, and an update(0, dt) has
\* been called on a moved population
C26_Witness ==
    /\ updates = 2
    /\ upd2.iterations = 1
    /\ upd.iterations = 1
    /\ upd.dt = upd2.dt
    /\ Len(before2) = 4
    /\ \A k \in 1..4 : population.samples[k] # before[k] /\ before[k] # before2[k]

C26_WitnessZero ==
    /\ updates = 2
    /\ upd2.iterations = 2
    /\ upd.iterations = 0
    /\ Len(before) = 4
    /\ \A k \in 1..4 : before[k] # before2[k]

\* ======================================================================
\* Properties of NBody::lerp on mismatched instances
\* ======================================================================

\* C27: NBody::lerp of two instances with different body counts returns no
\* instance but aborts on the "Mismatched body count" assertion; with equal
\* body counts it does not abort and returns an N-body instance with that
\* body count.  In both cases self and other are as they were.
C27_LerpBodyCount ==
    (sys_op = "lerp" /\ sys.kind = "NBody")
        => /\ sys = sys_prev
           /\ sys_other \in Others(sys)
           /\ IF Len(sys.bodies) # Len(sys_other.bodies)
              THEN sys_panic
              ELSE /\ ~sys_panic
                   /\ lerp_res.kind = "NBody"
                   /\ Len(lerp_res.bodies) = Len(sys.bodies)

\* a lerp of a two-body instance with a three-body instance has aborted
C27_Witness ==
    /\ sys_op = "lerp"
    /\ sys.kind = "NBody"
    /\ Len(sys.bodies) = 2
    /\ Len(sys_other.bodies) = 3
    /\ sys_panic

\* a lerp of two different three-body instances has returned an instance
C27_WitnessEqual ==
    /\ sys_op = "lerp"
    /\ sys.kind = "NBody"
    /\ Len(sys.bodies) = 3
    /\ Len(sys_other.bodies) = 3
    /\ sys_other # sys
    /\ ~sys_panic
    /\ Len(lerp_res.bodies) = 3

\* ======================================================================
\* Properties of the layer depth of the viewer
\* ======================================================================
\* the population `samples` after n batches Samples::update(upi, dt)
RECURSIVE Batches(_, _, _, _)
Batches(samples, n, upi, dt) ==
    IF n = 0 THEN samples
    ELSE Samples_update(Batches(samples, n - 1, upi, dt), upi, dt)

\* C28: current_depth is the number of Samples::update(
\* updates_per_iteration, dt) batches applied to the current population
\* since it was built: the population is the built one advanced by
\* current_depth batches and there is one layer per batch; a run of
\* process_layers_sys that raises current_depth by n has applied exactly n
\* batches and spawned n layers; and a run entered with current_depth >=
\* target_depth has changed nothing.
C28_DepthCountsBatches ==
    /\ layer_data.current_depth >= 0
    /\ layers = layer_data.current_depth
    /\ state.samples = Batches(v_built, layer_data.current_depth,
                               state.updates_per_iteration, state.dt)
    /\ v_last = "process" =>
        LET n == layer_data.current_depth - v_prev.layer_data.current_depth
        IN /\ n >= 0
           /\ layers = v_prev.layers + n
           /\ camera_z = v_prev.camera_z + n
           /\ state.samples = Batches(v_prev.state.samples, n,
                                      v_prev.state.updates_per_iteration,
                                      v_prev.state.dt)
           /\ v_prev.layer_data.current_depth >= v_prev.layer_data.target_depth
                => World = v_prev

\* after a redraw with a non-zero initial mutation, a run has produced two
\* layers on top of one, moving the population each time
C28_Witness ==
    /\ v_last = "process"
    /\ v_prev.layer_data.current_depth = 1
    /\ layer_data.current_depth = 3
    /\ init_data.initial_mutation = <<50, 0>>
    /\ v_built = InitData_init(init_data).samples
    /\ state.samples # v_prev.state.samples
    /\ v_prev.state.samples # v_built

\* a run entered above the target depth has come and gone
C28_WitnessIdle ==
    /\ v_last = "process"
    /\ v_prev.layer_data.current_depth = 2
    /\ v_prev.layer_data.target_depth = 1
    /\ layer_data.current_depth = 2

\* a step of the viewer other than an edit in the GUI
C29_NoEdit == v_last' # "gui"

\* a run of process_layers_sys entered below the target depth produces at
\* least one layer and does not pass the target depth
C29_RunProgress ==
    [][ (v_last' = "process" /\ layer_data.current_depth < layer_data.target_depth)
            => /\ layer_data'.current_depth > layer_data.current_depth
               /\ layer_data'.current_depth <= layer_data.target_depth ]_vars

\* the viewer is at rest: neither reset_layers_sys nor process_layers_sys
\* would change anything, so without an edit in the GUI nothing changes
\* any more
C29_AtRest ==
    /\ reset_layers_sys(World, init_data) = World
    /\ process_layers_sys(World, 1) = World

C30_DisplaySampleValid ==
    /\ [](display_sample \in 0..(SAMPLE_SIZE - 1))
    /\ [][ (app_last' = "Left" /\ display_sample = 0)
            => display_sample' = SAMPLE_SIZE - 1 ]_vars
    /\ [][ (app_last' = "Right" /\ display_sample = SAMPLE_SIZE - 1)
            => display_sample' = 0 ]_vars

\* Left has wrapped from 0 to the last sample
C30_Witness ==
    /\ app_last = "Left"
    /\ display_sample = SAMPLE_SIZE - 1

\* a click right of the window, and one into a window without extent, have
\* selected the last sample
C30_WitnessClick ==
    /\ app_last = "Mouse"
    /\ display_sample = SAMPLE_SIZE - 1

====
